---- MODULE Spec2Model ----
(***************************************************************************)
(* A model of mdp-dedupe: the command-line pipeline of                     *)
(* src/src/mdp_dedupe/__main__.py, the run_dedupe script and the core      *)
(* deduplicate_records / prepare_dedupe_data / setup_dedupe functions of   *)
(* src/src/mdp_dedupe/core/dedup_match.py, together with Config.get.       *)
(*                                                                         *)
(* The third-party dedupe library (Dedupe, StaticDedupe, console_label,    *)
(* train, write_settings, partition) is not part of the repository.  Its   *)
(* calls are modelled as environment steps: each outcome the caller can    *)
(* observe (a value of the shape the caller destructures, or an            *)
(* exception) is a nondeterministic choice.                                *)
(*                                                                         *)
(* Numbers: probabilities, scores and thresholds are integers in tenths    *)
(* (5 is 0.5); a written confidence is an integer in units of 0.0001.      *)
(***************************************************************************)
EXTENDS Integers, Sequences, FiniteSets, TLC

VARIABLES
    cfg,              \* the loaded configuration dictionary (Config._config)
    settings,         \* the model artifact <models>/dedupe_model_settings on disk
    results,          \* the results file <results>/dedupe_results.csv on disk
    runs_left,        \* how many more processes may be started
    removed,          \* how often the environment has deleted the model artifact
    entry,            \* the entry point of the running process
    pc,               \* the position of the running process
    args,             \* main: the flags of the command line
    steps,            \* main: the steps still to execute
    ran,              \* main: the steps that completed or were entered, in order
    data,             \* deduplicate_records: the dataframes, source -> table
    dedupe_data,      \* deduplicate_records: the keys of combined_data
    fields,           \* the variable definitions handed to dedupe.Dedupe
    deduper,          \* the object setup_dedupe returned
    threshold,        \* the value config.get("dedupe.threshold", 0.5) returned
    clusters,         \* the list partition returned
    exc,              \* the exception deduplicate_records raised, or "none"
    message,          \* its message: the prefixes put in front, then the cause's text
    log,              \* the messages written with logger.error
    exit_status,      \* the exit status of the process
    trace,            \* the phases deduplicate_records went through in this run
    settings_seen,    \* what settings_file.exists() saw in this run
    results_at_start, \* the results file as it was when the process started
    last_run,         \* what the last process that returned took in and wrote
    call,             \* preprocessing: the function that was applied, or "none"
    raw,              \* preprocessing: the argument it was applied to
    canonical,        \* preprocessing: what it returned, or that it raised
    canonical_again   \* preprocessing: what it returned for its own result

vars == <<cfg, settings, results, runs_left, removed, entry, pc, args, steps, ran, data,
          dedupe_data, fields, deduper, threshold, clusters, exc, message, log, exit_status,
          trace, settings_seen, results_at_start, last_run, call, raw, canonical,
          canonical_again>>

\* The variables of the preprocessing functions.
normalizer == <<call, raw, canonical, canonical_again>>

(***************************************************************************)
(* Bounds of the model.                                                    *)
(***************************************************************************)
\* local ids of the rows of a table are 1..MaxLocalId
MaxLocalId == 1
\* a data set holds at most MaxRecords rows in all
MaxRecords == 2
\* processes started one after the other in the multi-run specification
MaxRuns == 2
\* deletions of the model artifact by the environment
MaxRemovals == 1

\* The sources deduplicate_records looks for (same list in run_dedupe.py).
SourceList == <<"clinic", "urgent_care", "hospital", "physical_therapy">>

\* The sources whose parquet file may exist in the model; the files of the
\* other sources are missing (a logged warning, the source is skipped).
DataSources == {"clinic", "urgent_care"}

RequiredColumns == {"id", "first_name", "last_name", "date_of_birth"}

OptionalColumns == {"email", "phone_number", "address"}

(***************************************************************************)
(* Python values of the configuration: numbers and dictionaries.           *)
(***************************************************************************)
Num(n) == [t |-> "num", v |-> n]

Dict(f) == [t |-> "dict", v |-> f]

EmptyDict == Dict(<<>>)

\* Python truthiness: 0 and {} are falsy.
Truthy(value) ==
    IF value.t = "num" THEN value.v # 0 ELSE DOMAIN value.v # {}

\* dict.get(k, {})
DictGet(value, k) ==
    IF k \in DOMAIN value.v THEN value.v[k] ELSE EmptyDict

\* Config.get(key, default), key already split on "."
RECURSIVE ConfigGet(_, _, _)
ConfigGet(value, keys, default) ==
    IF keys = <<>>
    THEN IF Truthy(value) THEN value ELSE default
    ELSE IF value.t # "dict"
         THEN default
         ELSE LET v == DictGet(value, Head(keys))
              IN  IF ~Truthy(v) THEN default ELSE ConfigGet(v, Tail(keys), default)

\* The default of config.get("dedupe.threshold", 0.5), in tenths.
DefaultThreshold == 5

\* Thresholds a configuration file may set, in tenths: 0 (falsy), a value
\* inside (0,1), and a value outside it.
ThresholdValues == {0, 7, 15}

\* The sections paths and database are required by Config._load_config; the
\* section dedupe is optional.
BaseConfig == [paths |-> Dict([models |-> Num(1)]), database |-> Dict([url |-> Num(1)])]

ConfigWith(section) ==
    Dict([k \in {"paths", "database", "dedupe"} |->
            IF k = "dedupe" THEN section ELSE BaseConfig[k]])

Configs ==
    {Dict(BaseConfig)} \cup {ConfigWith(Dict([threshold |-> Num(v)])) : v \in ThresholdValues}

ThresholdOf(config) ==
    ConfigGet(config, <<"dedupe", "threshold">>, Num(DefaultThreshold)).v

\* The value dedupe.threshold is configured to, as a set (empty: not configured).
ConfiguredThreshold(config) ==
    IF "dedupe" \in DOMAIN config.v /\ "threshold" \in DOMAIN config.v["dedupe"].v
    THEN {config.v["dedupe"].v["threshold"].v}
    ELSE {}

(***************************************************************************)
(* Tables (dataframes): the columns present and the local ids of the rows. *)
(***************************************************************************)
AllColumns == RequiredColumns \cup OptionalColumns

ColumnSets == {AllColumns} \cup {AllColumns \ {c} : c \in RequiredColumns}

\* The id column of a table: any values, in any order, repeated or not.
RowIds == UNION {[1..n -> 1..MaxLocalId] : n \in 0..MaxRecords}

\* A table with every column and any rows, or a table that lacks one required
\* column (its rows are never read: one row stands for them).
Tables ==
    [cols : {AllColumns}, ids : RowIds]
    \cup [cols : ColumnSets \ {AllColumns}, ids : {<<1>>}]

RECURSIVE RowCount(_, _)
RowCount(d, sources) ==
    IF sources = {} THEN 0
    ELSE LET s == CHOOSE x \in sources : TRUE
         IN  Len(d[s].ids) + RowCount(d, sources \ {s})

\* The parquet directory as a process finds it: a table for some of the sources.
DataSets ==
    {d \in UNION {[S -> Tables] : S \in SUBSET DataSources} :
        RowCount(d, DOMAIN d) <= MaxRecords}

\* The sources of a data dictionary in insertion order (the order of SourceList).
SourcesIn(d) == SelectSeq(SourceList, LAMBDA s : s \in DOMAIN d)

\* f"{source}_{row['id']}"
RecordId(source, lid) == source \o "_" \o ToString(lid)

(***************************************************************************)
(* prepare_dedupe_data: the keys of combined_data in insertion order, or   *)
(* InvalidDataError.                                                       *)
(***************************************************************************)
\* dict[key] = value keeps the position of a key that is already present
DictInsert(keys, k) ==
    IF \E i \in 1..Len(keys) : keys[i] = k THEN keys ELSE Append(keys, k)

RECURSIVE AddRows(_, _, _)
AddRows(keys, source, ids) ==
    IF ids = <<>> THEN keys
    ELSE AddRows(DictInsert(keys, RecordId(source, Head(ids))), source, Tail(ids))

\* A check that looks for the id column only.
MissingColumnsIdOnly(table) == {"id"} \ table.cols

MissingColumns(table) == RequiredColumns \ table.cols

RECURSIVE CombineSources(_, _, _)
CombineSources(dataframes, sources, keys) ==
    IF sources = <<>>
    THEN IF keys = <<>>
         THEN [err |-> "InvalidDataError", keys |-> <<>>]
         ELSE [err |-> "none", keys |-> keys]
    ELSE LET df == dataframes[Head(sources)]
         IN  IF MissingColumns(df) # {}
             THEN [err |-> "InvalidDataError", keys |-> <<>>]
             ELSE CombineSources(dataframes, Tail(sources),
                                 AddRows(keys, Head(sources), df.ids))

prepare_dedupe_data(dataframes) ==
    IF DOMAIN dataframes = {}
    THEN [err |-> "InvalidDataError", keys |-> <<>>]
    ELSE CombineSources(dataframes, SourcesIn(dataframes), <<>>)

Range(seq) == {seq[i] : i \in 1..Len(seq)}

(***************************************************************************)
(* The state before any process has started.                               *)
(***************************************************************************)
NoFile == [exists |-> FALSE, rows |-> <<>>]

\* A results file left by an earlier run.
OldResults ==
    [exists |-> TRUE,
     rows |-> <<[cluster_id |-> 0, record_id |-> "clinic_1", confidence |-> 10000]>>]

NoData == <<>>

\* No process has returned from deduplicate_records yet.
NoRun ==
    [ran |-> FALSE, data |-> NoData, model |-> "none", removed |-> 0,
     threshold |-> DefaultThreshold, rows |-> <<>>]

\* Nothing has been handed to a preprocessing function.
NoValue == [t |-> "null"]

\* The command line without a flag.
NoArgs ==
    [all |-> FALSE, seed |-> FALSE, extract |-> FALSE, preprocess |-> FALSE,
     dedupe |-> FALSE]

\* The part of the state that belongs to one process.
FreshProcess ==
    /\ args = NoArgs
    /\ steps = <<>>
    /\ ran = <<>>
    /\ data = NoData
    /\ dedupe_data = <<>>
    /\ fields = <<>>
    /\ deduper = "none"
    /\ threshold = DefaultThreshold
    /\ clusters = <<>>
    /\ exc = "none"
    /\ message = <<>>
    /\ log = {}
    /\ exit_status = "running"
    /\ trace = <<>>
    /\ settings_seen = "unknown"

\* No process has started; the model artifact and the results file are
\* there or not.
InitDisk ==
    /\ settings \in {"absent", "complete"}
    /\ results \in {NoFile, OldResults}
    /\ results_at_start = results
    /\ last_run = NoRun
    /\ call = "none"
    /\ raw = NoValue
    /\ canonical = NoValue
    /\ canonical_again = NoValue
    /\ removed = 0
    /\ entry = "none"
    /\ pc = "idle"
    /\ FreshProcess

InitFiles ==
    /\ cfg \in Configs
    /\ InitDisk

Init ==
    /\ InitFiles
    /\ runs_left = 1

(***************************************************************************)
(* What the dedupe library's partition may hand back: a list of            *)
(* (records, scores) pairs.  The library decides the grouping, the order   *)
(* and the scores; the model lets it return any ordered grouping of the    *)
(* keys it was given, each group with a non-empty tuple of scores.         *)
(***************************************************************************)
ScoreSeqs == {<<10>>, <<6, 9>>}

Orderings(S) == {s \in [1..Cardinality(S) -> S] : Range(s) = S}

Labelings(U) ==
    UNION {{f \in [U -> 1..k] : \A i \in 1..k : \E u \in U : f[u] = i} :
           k \in 1..Cardinality(U)}

Block(f, i) == {u \in DOMAIN f : f[u] = i}

NumBlocks(f) == Cardinality({f[u] : u \in DOMAIN f})

\* The lists whose i-th entry orders block i of f and gives it scores.
RECURSIVE GroupingsFrom(_, _)
GroupingsFrom(f, i) ==
    IF i > NumBlocks(f) THEN {<<>>}
    ELSE {<<[records |-> o, scores |-> sc]>> \o rest :
            o \in Orderings(Block(f, i)), sc \in ScoreSeqs,
            rest \in GroupingsFrom(f, i + 1)}

PartitionResults(U) == UNION {GroupingsFrom(f, 1) : f \in Labelings(U)}

(***************************************************************************)
(* Writing the results file (deduplicate_records, the with block).         *)
(***************************************************************************)
RECURSIVE SumSeq(_)
SumSeq(seq) == IF seq = <<>> THEN 0 ELSE Head(seq) + SumSeq(Tail(seq))

\* f"{confidence:.4f}" of float(total) / n, total in tenths: the quotient in
\* units of 0.0001, rounded to the nearest, a tie to the even neighbour.
Format4(total, n) ==
    LET scaled == total * 1000
        q == scaled \div n
        r == scaled % n
    IN  IF 2 * r > n \/ (2 * r = n /\ q % 2 = 1) THEN q + 1 ELSE q

\* confidence = float(sum(scores)) / len(scores), then formatted
Confidence(scores) == Format4(SumSeq(scores), Len(scores))

\* A writer that numbers the rows instead of the clusters.
ClusterRowsNumbered(cluster_id, cluster) ==
    [i \in 1..Len(cluster.records) |->
        [cluster_id |-> cluster_id + i - 1,
         record_id |-> cluster.records[i],
         confidence |-> Confidence(cluster.scores)]]

ClusterRows(cluster_id, cluster) ==
    [i \in 1..Len(cluster.records) |->
        [cluster_id |-> cluster_id,
         record_id |-> cluster.records[i],
         confidence |-> Confidence(cluster.scores)]]

\* The rows written before the loop ends or the division raises.
RECURSIVE WriteRows(_, _, _)
WriteRows(cs, i, rows) ==
    IF i > Len(cs)
    THEN [rows |-> rows, err |-> "none"]
    ELSE IF cs[i].records # <<>> /\ cs[i].scores = <<>>
         THEN [rows |-> rows, err |-> "ZeroDivisionError"]
         ELSE WriteRows(cs, i + 1, rows \o ClusterRows(i - 1, cs[i]))

(***************************************************************************)
(* main (src/src/mdp_dedupe/__main__.py).                                  *)
(***************************************************************************)
\* The flags parse_args returns: every choice of the four step flags without
\* --all, and --all alone or with --seed (with --all each test of main is
\* `flag or run_all`, so one more flag changes nothing).
Args ==
    {parsed \in [all : BOOLEAN, seed : BOOLEAN, extract : BOOLEAN,
                 preprocess : BOOLEAN, dedupe : BOOLEAN] :
        parsed.all => ~parsed.extract /\ ~parsed.preprocess /\ ~parsed.dedupe}

\* A main that adds the steps of --all after the steps named by a flag.
BuildStepsAllAppended(parsed) ==
    LET named ==
            (IF parsed.seed THEN <<"seed">> ELSE <<>>)
         \o (IF parsed.extract THEN <<"extract">> ELSE <<>>)
         \o (IF parsed.preprocess THEN <<"preprocess">> ELSE <<>>)
         \o (IF parsed.dedupe THEN <<"dedupe">> ELSE <<>>)
        selected ==
            named \o (IF parsed.all THEN <<"seed", "extract", "preprocess", "dedupe">> ELSE <<>>)
    IN  IF selected = <<>> THEN <<"dedupe">> ELSE selected

BuildSteps(parsed) ==
    LET selected ==
            (IF parsed.seed \/ parsed.all THEN <<"seed">> ELSE <<>>)
         \o (IF parsed.extract \/ parsed.all THEN <<"extract">> ELSE <<>>)
         \o (IF parsed.preprocess \/ parsed.all THEN <<"preprocess">> ELSE <<>>)
         \o (IF parsed.dedupe \/ parsed.all THEN <<"dedupe">> ELSE <<>>)
    IN  IF selected = <<>> THEN <<"dedupe">> ELSE selected

disk == <<cfg, settings, results, removed>>

locals == <<data, dedupe_data, fields, deduper, threshold, clusters, exc, message, trace,
            settings_seen>>

CanStart == pc \in {"idle", "exit"} /\ runs_left > 0

\* A new process: nothing of the previous one is left but the files.
NewProcess(name) ==
    /\ entry' = name
    /\ runs_left' = runs_left - 1
    /\ results_at_start' = results
    /\ last_run' = IF pc = "exit" /\ exc = "none" /\ Len(trace) > 0 /\ trace[Len(trace)] = "write"
                   THEN [ran |-> TRUE, data |-> data, model |-> deduper, removed |-> removed,
                         threshold |-> threshold, rows |-> results.rows]
                   ELSE last_run
    /\ ran' = <<>>
    /\ dedupe_data' = <<>>
    /\ fields' = <<>>
    /\ deduper' = "none"
    /\ threshold' = DefaultThreshold
    /\ clusters' = <<>>
    /\ exc' = "none"
    /\ message' = <<>>
    /\ trace' = <<>>
    /\ settings_seen' = "unknown"
    /\ UNCHANGED disk
    /\ UNCHANGED normalizer

\* main up to the loop: Config(), ensure_directories, the list of steps.
StartMain ==
    /\ CanStart
    /\ NewProcess("main")
    /\ data' = NoData
    /\ \E parsed \in Args, loaded \in BOOLEAN :
          /\ args' = parsed
          /\ IF loaded
             THEN /\ steps' = BuildSteps(parsed)
                  /\ log' = {}
                  /\ exit_status' = "running"
                  /\ pc' = "steps"
             ELSE /\ steps' = <<>>
                  /\ log' = {"main_error"}
                  /\ exit_status' = "1"
                  /\ pc' = "exit"

\* One of the steps seed, extract, preprocess: it returns, or it raises and
\* main's except clause logs and returns 1.
ExternalStep(name) ==
    /\ pc = "steps"
    /\ steps # <<>>
    /\ Head(steps) = name
    /\ \E ok \in BOOLEAN :
          IF ok
          THEN /\ steps' = Tail(steps)
               /\ ran' = Append(ran, name)
               /\ UNCHANGED <<log, exit_status, pc>>
          ELSE /\ steps' = <<>>
               /\ ran' = ran
               /\ log' = log \cup {"main_error"}
               /\ exit_status' = "1"
               /\ pc' = "exit"
    /\ UNCHANGED <<disk, locals, runs_left, entry, results_at_start, last_run, args>>
    /\ UNCHANGED normalizer

StepSeed == ExternalStep("seed")

StepExtract == ExternalStep("extract")

StepPreprocess == ExternalStep("preprocess")

\* run_deduplication calls deduplicate_records(config): data is None.
StepDedupe ==
    /\ pc = "steps"
    /\ steps # <<>>
    /\ Head(steps) = "dedupe"
    /\ steps' = Tail(steps)
    /\ ran' = Append(ran, "dedupe")
    /\ pc' = "dedupe_load"
    /\ UNCHANGED <<disk, locals, runs_left, entry, results_at_start, last_run, args, log,
                   exit_status>>
    /\ UNCHANGED normalizer

\* run_deduplication after deduplicate_records: an Exception is logged and
\* None is returned; a KeyboardInterrupt is no Exception and ends the process.
RunDeduplicationEnd ==
    /\ entry = "main"
    /\ pc \in {"returned", "raised"}
    /\ IF exc = "KeyboardInterrupt"
       THEN /\ pc' = "exit"
            /\ exit_status' = "130"
            /\ log' = log
       ELSE /\ pc' = "steps"
            /\ exit_status' = exit_status
            /\ log' = IF exc = "none" THEN log ELSE log \cup {"dedupe_failed"}
    /\ UNCHANGED <<disk, locals, runs_left, entry, results_at_start, last_run, args, steps,
                   ran>>
    /\ UNCHANGED normalizer

\* The loop is over: return 0.
MainReturn ==
    /\ entry = "main"
    /\ pc = "steps"
    /\ steps = <<>>
    /\ exit_status' = "0"
    /\ pc' = "exit"
    /\ UNCHANGED <<disk, locals, runs_left, entry, results_at_start, last_run, args, steps,
                   ran, log>>
    /\ UNCHANGED normalizer

(***************************************************************************)
(* The run_dedupe script (src/src/mdp_dedupe/scripts/run_dedupe.py).       *)
(***************************************************************************)
\* load_preprocessed_data: a table without an id column gets id = index + 1
AddIdColumn(table) ==
    IF "id" \in table.cols
    THEN table
    ELSE [cols |-> table.cols \cup {"id"}, ids |-> [i \in 1..Len(table.ids) |-> i]]

\* main of the script up to the call deduplicate_records(config, data); an
\* exception of Config() or read_parquet is not caught: the process dies.
StartRunDedupe ==
    /\ CanStart
    /\ NewProcess("run_dedupe")
    /\ args' = NoArgs
    /\ steps' = <<>>
    /\ log' = {}
    /\ \E d \in DataSets, loaded \in BOOLEAN :
          IF loaded
          THEN /\ data' = [s \in DOMAIN d |-> AddIdColumn(d[s])]
               /\ exit_status' = "running"
               /\ pc' = "dedupe_check"
          ELSE /\ data' = NoData
               /\ exit_status' = "1"
               /\ pc' = "exit"

\* The script after deduplicate_records: it returns, or the exception is not
\* caught and the process dies with a traceback.
ScriptEnd ==
    /\ entry = "run_dedupe"
    /\ pc \in {"returned", "raised"}
    /\ pc' = "exit"
    /\ exit_status' = IF exc = "none" THEN "0"
                      ELSE IF exc = "KeyboardInterrupt" THEN "130" ELSE "1"
    /\ UNCHANGED <<disk, locals, runs_left, entry, results_at_start, last_run, args, steps,
                   ran, log>>
    /\ UNCHANGED normalizer

(***************************************************************************)
(* deduplicate_records (src/src/mdp_dedupe/core/dedup_match.py).           *)
(***************************************************************************)
process == <<runs_left, entry, results_at_start, last_run, args, steps, ran, log,
             exit_status>>

\* A deduplicate_records without its except clauses.
DedupeExceptUnwrapped(e) == e

\* The except clauses of deduplicate_records: InvalidDataError and
\* ModelNotFoundError leave unchanged, every other Exception leaves as
\* DeduplicationError; a KeyboardInterrupt is no Exception and passes.
DedupeExcept(e) ==
    IF e \in {"InvalidDataError", "ModelNotFoundError", "KeyboardInterrupt"}
    THEN e
    ELSE "DeduplicationError"

\* The except clauses of setup_dedupe: FileNotFoundError becomes
\* ModelNotFoundError, every other Exception DeduplicationError.
SetupExcept(e) ==
    IF e = "FileNotFoundError" THEN "ModelNotFoundError"
    ELSE IF e = "KeyboardInterrupt" THEN e
    ELSE "DeduplicationError"

\* The messages: f"Model file not found: {str(e)}" and
\* f"Error setting up dedupe: {str(e)}" in setup_dedupe,
\* f"Deduplication failed: {str(e)}" in deduplicate_records.
SetupMessage(e, text) ==
    IF e = "FileNotFoundError" THEN <<"Model file not found">> \o text
    ELSE IF e = "KeyboardInterrupt" THEN text
    ELSE <<"Error setting up dedupe">> \o text

DedupeMessage(e, text) ==
    IF e \in {"InvalidDataError", "ModelNotFoundError", "KeyboardInterrupt"}
    THEN text
    ELSE <<"Deduplication failed">> \o text

\* e is raised in the body of deduplicate_records; str(e) is its name here.
Raise(e) ==
    /\ exc' = DedupeExcept(e)
    /\ message' = DedupeMessage(e, <<e>>)
    /\ pc' = "raised"

\* e is raised in the try block of setup_dedupe.
RaiseInSetup(e) ==
    /\ exc' = DedupeExcept(SetupExcept(e))
    /\ message' = DedupeMessage(SetupExcept(e), SetupMessage(e, <<e>>))
    /\ pc' = "raised"

\* data is None: read the parquet files that exist.
LoadData ==
    /\ pc = "dedupe_load"
    /\ \E d \in DataSets, ok \in BOOLEAN :
          IF ok
          THEN /\ data' = d
               /\ pc' = "dedupe_check"
               /\ UNCHANGED <<exc, message>>
          ELSE /\ data' = data
               /\ Raise("OSError")
    /\ UNCHANGED fields
    /\ UNCHANGED <<disk, process, dedupe_data, deduper, threshold, clusters, trace,
                   settings_seen>>
    /\ UNCHANGED normalizer

\* if not data: raise InvalidDataError; dedupe_data = prepare_dedupe_data(data)
Prepare ==
    /\ pc = "dedupe_check"
    /\ trace' = Append(trace, "validate")
    /\ LET r == prepare_dedupe_data(data)
       IN  IF DOMAIN data = {} \/ r.err # "none"
           THEN /\ Raise("InvalidDataError")
                /\ dedupe_data' = dedupe_data
           ELSE /\ dedupe_data' = r.keys
                /\ pc' = "setup"
                /\ UNCHANGED <<exc, message>>
    /\ UNCHANGED fields
    /\ UNCHANGED <<disk, process, data, deduper, threshold, clusters, settings_seen>>
    /\ UNCHANGED normalizer

\* A setup_dedupe that trains whether or not the settings file exists.
SetupExistsIgnored ==
    /\ pc = "setup"
    /\ settings_seen' = settings
    /\ pc' = "label"
    /\ UNCHANGED fields
    /\ UNCHANGED <<disk, process, data, dedupe_data, deduper, threshold, clusters, exc,
                   message, trace>>
    /\ UNCHANGED normalizer

\* setup_dedupe: settings_file.exists()
SetupExists ==
    /\ pc = "setup"
    /\ settings_seen' = settings
    /\ pc' = IF settings # "absent" THEN "load" ELSE "label"
    /\ UNCHANGED fields
    /\ UNCHANGED <<disk, process, data, dedupe_data, deduper, threshold, clusters, exc,
                   message, trace>>
    /\ UNCHANGED normalizer

\* open(settings_file, "rb") and dedupe.StaticDedupe(f).  A file that is gone
\* raises FileNotFoundError; what StaticDedupe makes of a file that was not
\* written to the end is the library's: it raises or it returns an object.
LoadModel ==
    /\ pc = "load"
    /\ trace' = Append(trace, "load")
    /\ \E ok \in BOOLEAN :
          IF settings = "absent"
          THEN /\ RaiseInSetup("FileNotFoundError")
               /\ deduper' = deduper
          ELSE IF settings = "complete" \/ ok
               THEN /\ deduper' = IF settings = "complete" THEN "static" ELSE "static_partial"
                    /\ pc' = "partition"
                    /\ UNCHANGED <<exc, message>>
               ELSE /\ RaiseInSetup("SettingsFileLoadingException")
                    /\ deduper' = deduper
    /\ UNCHANGED fields
    /\ UNCHANGED <<disk, process, data, dedupe_data, threshold, clusters, settings_seen>>
    /\ UNCHANGED normalizer

\* String(name, has_missing=True) for each of the six fields, in this order
StringFields ==
    [i \in 1..6 |->
        [field |-> <<"first_name", "last_name", "email", "phone_number", "address",
                     "date_of_birth">>[i],
         has_missing |-> TRUE]]

\* dedupe.Dedupe(fields), prepare_training and console_label: the labeling
\* session ends normally, fails (no oracle) or is interrupted.
Label ==
    /\ pc = "label"
    /\ fields' = StringFields
    /\ \E outcome \in {"prepare_failed", "labelled", "label_failed", "interrupted"} :
          /\ trace' = IF outcome = "prepare_failed" THEN trace ELSE Append(trace, "label")
          /\ IF outcome = "labelled"
             THEN /\ pc' = "train"
                  /\ UNCHANGED <<exc, message>>
             ELSE IF outcome = "interrupted"
                  THEN RaiseInSetup("KeyboardInterrupt")
                  ELSE RaiseInSetup("Exception")
    /\ UNCHANGED <<disk, process, data, dedupe_data, deduper, threshold, clusters,
                   settings_seen>>
    /\ UNCHANGED normalizer

\* A train after which the model is used without being saved first.
TrainWithoutSave ==
    /\ pc = "train"
    /\ trace' = Append(trace, "train")
    /\ deduper' = "trained"
    /\ pc' = "partition"
    /\ UNCHANGED <<exc, message>>
    /\ UNCHANGED fields
    /\ UNCHANGED <<disk, process, data, dedupe_data, threshold, clusters, settings_seen>>
    /\ UNCHANGED normalizer

\* deduper.train()
Train ==
    /\ pc = "train"
    /\ trace' = Append(trace, "train")
    /\ \E ok \in BOOLEAN :
          IF ok
          THEN /\ deduper' = "trained"
               /\ pc' = "save_open"
               /\ UNCHANGED <<exc, message>>
          ELSE /\ deduper' = deduper
               /\ RaiseInSetup("Exception")
    /\ UNCHANGED fields
    /\ UNCHANGED <<disk, process, data, dedupe_data, threshold, clusters, settings_seen>>
    /\ UNCHANGED normalizer

\* os.makedirs and open(settings_file, "wb"): the file is created, or cut to
\* nothing, at the configured path.
SaveOpen ==
    /\ pc = "save_open"
    /\ trace' = Append(trace, "save")
    /\ \E ok \in BOOLEAN :
          IF ok
          THEN /\ settings' = "partial"
               /\ pc' = "save_write"
               /\ UNCHANGED <<exc, message>>
          ELSE /\ settings' = settings
               /\ RaiseInSetup("OSError")
    /\ UNCHANGED fields
    /\ UNCHANGED <<cfg, results, removed, process, data, dedupe_data, deduper, threshold,
                   clusters, settings_seen>>
    /\ UNCHANGED normalizer

\* deduper.write_settings(f) and the end of the with block: the file is
\* closed, never removed.  A file deleted meanwhile stays deleted.
SaveWrite ==
    /\ pc = "save_write"
    /\ \E ok \in BOOLEAN :
          IF ok
          THEN /\ settings' = IF settings = "partial" THEN "complete" ELSE settings
               /\ pc' = "partition"
               /\ UNCHANGED <<exc, message>>
          ELSE /\ settings' = settings
               /\ RaiseInSetup("OSError")
    /\ UNCHANGED fields
    /\ UNCHANGED <<cfg, results, removed, process, data, dedupe_data, deduper, threshold,
                   clusters, trace, settings_seen>>
    /\ UNCHANGED normalizer

\* threshold = config.get("dedupe.threshold", 0.5); deduper.partition(...)
Partition ==
    /\ pc = "partition"
    /\ trace' = Append(trace, "partition")
    /\ threshold' = ThresholdOf(cfg)
    /\ \/ /\ \E r \in PartitionResults(Range(dedupe_data)) : clusters' = r
          /\ pc' = "write"
          /\ UNCHANGED <<exc, message>>
       \/ /\ clusters' = clusters
          /\ Raise("Exception")
    /\ UNCHANGED fields
    /\ UNCHANGED <<disk, process, data, dedupe_data, deduper, settings_seen>>
    /\ UNCHANGED normalizer

\* os.makedirs, open(output_path, "w"), the header and one row per record
WriteResults ==
    /\ pc = "write"
    /\ trace' = Append(trace, "write")
    /\ \E ok \in BOOLEAN :
          IF ok
          THEN LET w == WriteRows(clusters, 1, <<>>)
               IN  /\ results' = [exists |-> TRUE, rows |-> w.rows]
                   /\ IF w.err = "none"
                      THEN /\ pc' = "returned"
                           /\ UNCHANGED <<exc, message>>
                      ELSE Raise(w.err)
          ELSE /\ results' = results
               /\ Raise("OSError")
    /\ UNCHANGED fields
    /\ UNCHANGED <<cfg, settings, removed, process, data, dedupe_data, deduper, threshold,
                   clusters, settings_seen>>
    /\ UNCHANGED normalizer

(***************************************************************************)
(* The environment: somebody deletes the model artifact.                   *)
(***************************************************************************)
RemoveModel ==
    /\ removed < MaxRemovals
    /\ settings # "absent"
    /\ pc # "idle"
    /\ settings' = "absent"
    /\ removed' = removed + 1
    /\ UNCHANGED <<cfg, results, process, pc, locals>>
    /\ UNCHANGED normalizer

Next ==
    \/ StartMain
    \/ StepSeed
    \/ StepExtract
    \/ StepPreprocess
    \/ StepDedupe
    \/ RunDeduplicationEnd
    \/ MainReturn
    \/ StartRunDedupe
    \/ ScriptEnd
    \/ LoadData
    \/ Prepare
    \/ SetupExists
    \/ LoadModel
    \/ Label
    \/ Train
    \/ SaveOpen
    \/ SaveWrite
    \/ Partition
    \/ WriteResults
    \/ RemoveModel

Spec == Init /\ [][Next]_vars

(***************************************************************************)
(* Several processes one after the other, each the run_dedupe script, on   *)
(* the same disk: what one run leaves at the model path the next one finds.*)
(***************************************************************************)
InitRuns ==
    /\ InitFiles
    /\ cfg = Dict(BaseConfig)
    /\ results = NoFile
    /\ runs_left = MaxRuns

NextRuns ==
    \/ StartRunDedupe
    \/ ScriptEnd
    \/ Prepare
    \/ SetupExists
    \/ LoadModel
    \/ Label
    \/ Train
    \/ SaveOpen
    \/ SaveWrite
    \/ Partition
    \/ WriteResults
    \/ RemoveModel

SpecRuns == InitRuns /\ [][NextRuns]_vars

(***************************************************************************)
(* The script src/scripts/dedup_match.py: the same pipeline written as a   *)
(* script.  Nothing is validated and no exception is caught: whatever is   *)
(* raised ends the process with a traceback.                               *)
(***************************************************************************)
\* get_dedupe_fields: dedupe.variables.String(name) for each of the six
\* fields; has_missing is not passed and is False by default.
get_dedupe_fields ==
    [i \in 1..Len(StringFields) |->
        [field |-> StringFields[i].field, has_missing |-> FALSE]]

\* prepare_dedupe_data of the script: row['id'] raises KeyError for a table
\* without the id column; no other column is looked at.
RECURSIVE ScriptCombine(_, _, _)
ScriptCombine(dataframes, sources, keys) ==
    IF sources = <<>>
    THEN [err |-> "none", keys |-> keys]
    ELSE LET df == dataframes[Head(sources)]
         IN  IF df.ids # <<>> /\ "id" \notin df.cols
             THEN [err |-> "KeyError", keys |-> <<>>]
             ELSE ScriptCombine(dataframes, Tail(sources),
                                AddRows(keys, Head(sources), df.ids))

\* f.write(f"{cluster_id},{record_id},{score}\n"): score is the cluster's
\* tuple of scores as a whole
RECURSIVE ScriptRows(_, _, _)
ScriptRows(cs, i, rows) ==
    IF i > Len(cs) THEN rows
    ELSE ScriptRows(cs, i + 1,
                    rows \o [k \in 1..Len(cs[i].records) |->
                                [cluster_id |-> i - 1,
                                 record_id |-> cs[i].records[k],
                                 score |-> cs[i].scores]])

\* An exception nothing catches: the process ends with status 1.
ScriptDies(e) ==
    /\ exc' = e
    /\ message' = <<e>>
    /\ pc' = "exit"
    /\ exit_status' = "1"

ScriptGoes(next) ==
    /\ pc' = next
    /\ UNCHANGED <<exc, message, exit_status>>

script_frame == <<cfg, removed, runs_left, entry, results_at_start, last_run, args, steps,
                  ran, log, trace>>

\* The module level (load_config, os.makedirs(RESULTS_DIR)) and the loading
\* of the parquet files that exist.
StartDedupMatch ==
    /\ CanStart
    /\ NewProcess("dedup_match")
    /\ args' = NoArgs
    /\ steps' = <<>>
    /\ log' = {}
    /\ \E d \in DataSets, loaded \in BOOLEAN :
          IF loaded
          THEN /\ data' = d
               /\ exit_status' = "running"
               /\ pc' = "script_prepare"
          ELSE /\ data' = NoData
               /\ exit_status' = "1"
               /\ pc' = "exit"

\* dedupe_data = prepare_dedupe_data(dataframes)
ScriptPrepare ==
    /\ pc = "script_prepare"
    /\ LET r == ScriptCombine(data, SourcesIn(data), <<>>)
       IN  IF r.err # "none"
           THEN /\ ScriptDies(r.err)
                /\ dedupe_data' = dedupe_data
           ELSE /\ dedupe_data' = r.keys
                /\ ScriptGoes("script_setup")
    /\ UNCHANGED <<script_frame, settings, results, data, fields, deduper, threshold,
                   clusters, settings_seen>>
    /\ UNCHANGED normalizer

\* setup_dedupe: os.path.exists(SETTINGS_FILE)
ScriptSetup ==
    /\ pc = "script_setup"
    /\ settings_seen' = settings
    /\ ScriptGoes(IF settings # "absent" THEN "script_load" ELSE "script_label")
    /\ UNCHANGED <<script_frame, settings, results, data, dedupe_data, fields, deduper,
                   threshold, clusters>>
    /\ UNCHANGED normalizer

\* open(SETTINGS_FILE, "rb") and dedupe.StaticDedupe(sf)
ScriptLoad ==
    /\ pc = "script_load"
    /\ \E ok \in BOOLEAN :
          IF settings = "absent"
          THEN /\ ScriptDies("FileNotFoundError")
               /\ deduper' = deduper
          ELSE IF settings = "complete" \/ ok
               THEN /\ deduper' = IF settings = "complete" THEN "static" ELSE "static_partial"
                    /\ ScriptGoes("script_partition")
               ELSE /\ ScriptDies("SettingsFileLoadingException")
                    /\ deduper' = deduper
    /\ UNCHANGED <<script_frame, settings, results, data, dedupe_data, fields, threshold,
                   clusters, settings_seen>>
    /\ UNCHANGED normalizer

\* dedupe.Dedupe(dedupe_fields) with the list of get_dedupe_fields(), then
\* prepare_training, console_label and train
ScriptTrain ==
    /\ pc = "script_label"
    /\ fields' = get_dedupe_fields
    /\ \E outcome \in {"trained", "failed", "interrupted"} :
          IF outcome = "trained"
          THEN /\ deduper' = "trained"
               /\ ScriptGoes("script_save")
          ELSE /\ deduper' = deduper
               /\ IF outcome = "failed" THEN ScriptDies("Exception")
                  ELSE ScriptDies("KeyboardInterrupt")
    /\ UNCHANGED <<script_frame, settings, results, data, dedupe_data, threshold,
                   clusters, settings_seen>>
    /\ UNCHANGED normalizer

\* open(SETTINGS_FILE, "wb"): the directory is not created first
ScriptSaveOpen ==
    /\ pc = "script_save"
    /\ \E ok \in BOOLEAN :
          IF ok
          THEN /\ settings' = "partial"
               /\ ScriptGoes("script_save_write")
          ELSE /\ settings' = settings
               /\ ScriptDies("OSError")
    /\ UNCHANGED <<script_frame, results, data, dedupe_data, fields, deduper, threshold,
                   clusters, settings_seen>>
    /\ UNCHANGED normalizer

\* deduper.write_settings(sf) and the end of the with block
ScriptSaveWrite ==
    /\ pc = "script_save_write"
    /\ \E ok \in BOOLEAN :
          IF ok
          THEN /\ settings' = IF settings = "partial" THEN "complete" ELSE settings
               /\ ScriptGoes("script_partition")
          ELSE /\ settings' = settings
               /\ ScriptDies("OSError")
    /\ UNCHANGED <<script_frame, results, data, dedupe_data, fields, deduper, threshold,
                   clusters, settings_seen>>
    /\ UNCHANGED normalizer

\* deduper.partition(data, threshold=0.5)
ScriptPartition ==
    /\ pc = "script_partition"
    /\ threshold' = DefaultThreshold
    /\ \/ /\ \E r \in PartitionResults(Range(dedupe_data)) : clusters' = r
          /\ ScriptGoes("script_write")
       \/ /\ clusters' = clusters
          /\ ScriptDies("Exception")
    /\ UNCHANGED <<script_frame, settings, results, data, dedupe_data, fields, deduper,
                   settings_seen>>
    /\ UNCHANGED normalizer

\* save_dedupe_results, and the end of the script
ScriptWrite ==
    /\ pc = "script_write"
    /\ \E ok \in BOOLEAN :
          IF ok
          THEN /\ results' = [exists |-> TRUE, rows |-> ScriptRows(clusters, 1, <<>>)]
               /\ pc' = "exit"
               /\ exit_status' = "0"
               /\ UNCHANGED <<exc, message>>
          ELSE /\ results' = results
               /\ ScriptDies("OSError")
    /\ UNCHANGED <<script_frame, settings, data, dedupe_data, fields, deduper, threshold,
                   clusters, settings_seen>>
    /\ UNCHANGED normalizer

InitScript ==
    /\ InitFiles
    /\ cfg = Dict(BaseConfig)
    /\ runs_left = 1

NextScript ==
    \/ StartDedupMatch
    \/ ScriptPrepare
    \/ ScriptSetup
    \/ ScriptLoad
    \/ ScriptTrain
    \/ ScriptSaveOpen
    \/ ScriptSaveWrite
    \/ ScriptPartition
    \/ ScriptWrite
    \/ RemoveModel

SpecScript == InitScript /\ [][NextScript]_vars

(***************************************************************************)
(* The preprocessing functions (scripts/data_preprocessing.py).  A Python  *)
(* string is a sequence of one-character strings; None and NaN are Null.   *)
(***************************************************************************)
\* text strings of the model hold up to MaxLen characters
MaxLen == 2

Null == [t |-> "null"]

Str(s) == [t |-> "str", s |-> s]

\* A Python int.
PyInt(n) == [t |-> "int", n |-> n]

\* An address given as a dictionary: the keys in the order they were put in
\* (the order a dict iterates in) and their values.
Address(keys, f) == [t |-> "dict", keys |-> keys, items |-> f]

\* A list, or the numpy array a list column is read back as.
List(elems) == [t |-> "list", elems |-> elems]

\* The call did not return: it raised the exception e.
Raised(e) == [t |-> "raised", e |-> e]

\* A table of one row: the row maps the columns to their values.
Table(source, row) == [t |-> "table", source |-> source, row |-> row]

Digits == <<"0", "1", "2", "3", "4", "5", "6", "7", "8", "9">>

\* str.isdigit
IsDigit(c) == \E i \in 1..Len(Digits) : Digits[i] = c

\* str.isspace
IsSpace(c) == c = " "

\* str.lower
LowerChar(c) == IF c = "A" THEN "a" ELSE IF c = "N" THEN "n" ELSE c

Lower(s) == [i \in 1..Len(s) |-> LowerChar(s[i])]

\* str.strip
RECURSIVE StripLeft(_)
StripLeft(s) == IF s # <<>> /\ IsSpace(Head(s)) THEN StripLeft(Tail(s)) ELSE s

RECURSIVE StripRight(_)
StripRight(s) ==
    IF s # <<>> /\ IsSpace(s[Len(s)]) THEN StripRight(SubSeq(s, 1, Len(s) - 1)) ELSE s

Strip(s) == StripRight(StripLeft(s))

\* sep.join(parts)
RECURSIVE Join(_, _)
Join(sep, parts) ==
    IF parts = <<>> THEN <<>>
    ELSE IF Len(parts) = 1 THEN Head(parts)
    ELSE Head(parts) \o sep \o Join(sep, Tail(parts))

\* The decimal digits of n, padded with zeros to the given width.
RECURSIVE NumText(_, _)
NumText(n, width) ==
    IF n < 10 /\ width <= 1 THEN <<Digits[n + 1]>>
    ELSE NumText(n \div 10, width - 1) \o <<Digits[(n % 10) + 1]>>

\* The keys of the address dictionaries of the model, and their text.
AddressKeys == <<"street", "city">>

KeyText(k) ==
    IF k = "street" THEN <<"s", "t", "r", "e", "e", "t">> ELSE <<"c", "i", "t", "y">>

\* repr of a value held in a container
Repr(value) ==
    IF value.t = "str" THEN <<"'">> \o value.s \o <<"'">>
    ELSE IF value.t = "int" THEN NumText(value.n, 1)
    ELSE <<"N", "o", "n", "e">>

\* address.keys(), address.values(): insertion order
KeysOf(d) == d.keys

\* str(value)
PyStr(value) ==
    IF value.t = "str" THEN value.s
    ELSE IF value.t = "int" THEN NumText(value.n, 1)
    ELSE IF value.t = "dict"
    THEN <<"{">>
         \o Join(<<",", " ">>,
                 [i \in 1..Len(KeysOf(value)) |->
                     <<"'">> \o KeyText(KeysOf(value)[i]) \o <<"'", ":", " ">>
                     \o Repr(value.items[KeysOf(value)[i]])])
         \o <<"}">>
    ELSE IF value.t = "list"
    THEN <<"[">> \o Join(<<",", " ">>, [i \in 1..Len(value.elems) |-> Repr(value.elems[i])])
         \o <<"]">>
    ELSE <<"N", "o", "n", "e">>

\* `if pd.isnull(value):` - None and NaN are null, a scalar or a dictionary
\* is not; for an array pd.isnull returns an array, and the truth value of
\* an array of two items raises ValueError (the lists of the model have two).
IfNull(value) ==
    IF value.t = "null" THEN "yes"
    ELSE IF value.t = "list" THEN "raise"
    ELSE "no"

normalize_text(value) ==
    IF IfNull(value) = "yes" THEN Null
    ELSE IF IfNull(value) = "raise" THEN Raised("ValueError")
    ELSE Str(Lower(Strip(PyStr(value))))

normalize_phone(phone) ==
    IF IfNull(phone) = "yes" THEN Null
    ELSE IF IfNull(phone) = "raise" THEN Raised("ValueError")
    ELSE Str(SelectSeq(PyStr(phone), IsDigit))

(***************************************************************************)
(* Dates.  pd.to_datetime(text, errors="coerce") is modelled for the texts *)
(* of the model: YYYY-MM-DD and MM/DD/YYYY of a day of the calendar give   *)
(* that day; every other text of the model is one it cannot parse (NaT).   *)
(***************************************************************************)
Years == {1970, 1990}

IsLeap(y) == (y % 4 = 0 /\ y % 100 # 0) \/ y % 400 = 0

DaysIn(y, m) ==
    IF m = 2 THEN (IF IsLeap(y) THEN 29 ELSE 28)
    ELSE IF m \in {4, 6, 9, 11} THEN 30 ELSE 31

Calendar == {d \in [y : Years, m : 1..12, d : 1..31] : d.d <= DaysIn(d.y, d.m)}

IsoText(y, m, d) == NumText(y, 4) \o <<"-">> \o NumText(m, 2) \o <<"-">> \o NumText(d, 2)

UsText(m, d, y) == NumText(m, 2) \o <<"/">> \o NumText(d, 2) \o <<"/">> \o NumText(y, 4)

NaT == [y |-> 0, m |-> 0, d |-> 0]

\* pd.to_datetime raises for a dictionary that does not name year, month, day.
ToDatetimeRaises(value) == value.t = "dict"

\* pd.to_datetime(value, errors="coerce"): a day or NaT; a number counts the
\* nanoseconds since 1970-01-01.
ToDatetime(value) ==
    IF value.t = "str"
    THEN IF \E day \in Calendar : value.s \in {IsoText(day.y, day.m, day.d),
                                               UsText(day.m, day.d, day.y)}
         THEN CHOOSE day \in Calendar : value.s \in {IsoText(day.y, day.m, day.d),
                                                     UsText(day.m, day.d, day.y)}
         ELSE NaT
    ELSE IF value.t = "int"
    THEN [y |-> 1970, m |-> 1, d |-> 1]
    ELSE NaT

\* A strftime that writes the day first.
StrftimeDayFirst(day) ==
    NumText(day.d, 2) \o <<"/">> \o NumText(day.m, 2) \o <<"/">> \o NumText(day.y, 4)

\* parsed_date.strftime("%Y-%m-%d")
Strftime(day) == IsoText(day.y, day.m, day.d)

\* The test of pd.isnull(date) is outside the try block; what to_datetime
\* raises is caught and gives None.
normalize_date(date) ==
    IF IfNull(date) = "yes" THEN Null
    ELSE IF IfNull(date) = "raise" THEN Raised("ValueError")
    ELSE IF ToDatetimeRaises(date) THEN Null
    ELSE LET parsed_date == ToDatetime(date)
         IN  IF parsed_date = NaT THEN Null ELSE Str(Strftime(parsed_date))

\* bool(value) of a scalar
IsTruthy(value) ==
    IF value.t = "str" THEN value.s # <<>>
    ELSE IF value.t = "int" THEN value.n # 0
    ELSE FALSE

flatten_address(address) ==
    IF address.t = "dict"
    THEN LET kept == SelectSeq(KeysOf(address), LAMBDA k : IsTruthy(address.items[k]))
         IN  Str(Join(<<",", " ">>, [i \in 1..Len(kept) |-> PyStr(address.items[kept[i]])]))
    ELSE IF IfNull(address) = "yes" THEN Null
    ELSE IF IfNull(address) = "raise" THEN Raised("ValueError")
    ELSE Str(PyStr(address))

(***************************************************************************)
(* preprocess_source_data on a table of one row.                           *)
(***************************************************************************)
DedupeFields ==
    {"first_name", "last_name", "email", "phone_number", "address", "date_of_birth"}

\* The columns a table of the model may have; dob and full_name are the raw
\* names of the urgent care and physical therapy sources.
Columns == DedupeFields \cup {"id", "dob", "full_name"}

\* The branch of the loop over df.columns that a column takes: the tests
\* "date" in field, "address" in field, "phone" in field, and the list
\* first_name, last_name, email.
FieldKind(field) ==
    IF field = "date_of_birth" THEN "date"
    ELSE IF field = "address" THEN "address"
    ELSE IF field = "phone_number" THEN "phone"
    ELSE IF field \in {"first_name", "last_name", "email"} THEN "text"
    ELSE "none"

NormalizeField(field, value) ==
    IF FieldKind(field) = "date" THEN normalize_date(value)
    ELSE IF FieldKind(field) = "address" THEN flatten_address(value)
    ELSE IF FieldKind(field) = "phone" THEN normalize_phone(value)
    ELSE IF FieldKind(field) = "text" THEN normalize_text(value)
    ELSE value

\* df[column] = value
Put(row, column, value) ==
    [c \in DOMAIN row \cup {column} |-> IF c = column THEN value ELSE row[c]]

\* for source_field, target_field in field_mappings.items(): ...
RECURSIVE ApplyMappings(_, _, _)
ApplyMappings(row, field_mappings, todo) ==
    IF todo = {} THEN row
    ELSE LET source_field == CHOOSE f \in todo : TRUE
             next == IF source_field \in DOMAIN row
                     THEN Put(row, field_mappings[source_field], row[source_field])
                     ELSE row
         IN  ApplyMappings(next, field_mappings, todo \ {source_field})

\* The first index from i on at which s holds (or does not hold) a space.
RECURSIVE Find(_, _, _)
Find(s, i, space) ==
    IF i > Len(s) THEN i
    ELSE IF IsSpace(s[i]) = space THEN i
    ELSE Find(s, i + 1, space)

\* df["full_name"].str.extract(r"^(\S+)"): NaN where nothing matches
ExtractFirst(value) ==
    IF value.t # "str" THEN Null
    ELSE IF value.s = <<>> THEN Null
    ELSE IF IsSpace(value.s[1]) THEN Null
    ELSE Str(SubSeq(value.s, 1, Find(value.s, 1, TRUE) - 1))

\* df["full_name"].str.extract(r"\s+(.+)$"): what follows the first run of
\* spaces; a run of two or more spaces at the end leaves its last space.
ExtractLast(value) ==
    IF value.t # "str" THEN Null
    ELSE LET s == value.s
             i == Find(s, 1, TRUE)
             j == Find(s, i, FALSE)
         IN  IF i > Len(s) THEN Null
             ELSE IF j <= Len(s) THEN Str(SubSeq(s, j, Len(s)))
             ELSE IF j - i >= 2 THEN Str(<<" ">>)
             ELSE Null

\* A first and a last name, as the two columns a split fills.
Names(first, last) == [t |-> "names", first_name |-> first, last_name |-> last]

\* df['full_name'].str.split(' ', n=1): the text cut at its first space, one
\* part when it holds none; NaN for a value that is no text.
StrSplit(value) ==
    IF value.t # "str" THEN <<>>
    ELSE LET s == value.s
             i == Find(s, 1, TRUE)
         IN  IF i > Len(s) THEN <<s>> ELSE <<SubSeq(s, 1, i - 1), SubSeq(s, i + 1, Len(s))>>

\* name_parts.str[k]: NaN where the list has no such part
StrGet(parts, k) == IF k + 1 <= Len(parts) THEN Str(parts[k + 1]) ELSE Null

\* preprocess_for_dedupe, source physical_therapy: first_name and last_name
ExtractionSplit(value) == Names(StrGet(StrSplit(value), 0), StrGet(StrSplit(value), 1))

\* preprocess_source_data, source physical_therapy: first_name and last_name
PreprocessingSplit(value) == Names(ExtractFirst(value), ExtractLast(value))

\* lambda x: str(x) if pd.notnull(x) else None
StrOrNone(x) == IF x.t = "null" THEN Null ELSE Str(PyStr(x))

\* config.get(f"field_mappings.{source}", {})
FieldMappings(config, source) == ConfigGet(config, <<"field_mappings", source>>, EmptyDict).v

preprocess_source_data(config, source, df) ==
    LET with_id == IF "id" \in DOMAIN df THEN df ELSE Put(df, "id", PyInt(1))
        field_mappings == FieldMappings(config, source)
        mapped == ApplyMappings(with_id, field_mappings, DOMAIN field_mappings)
        split == IF source = "physical_therapy" /\ "full_name" \in DOMAIN mapped
                 THEN Put(Put(mapped, "first_name", ExtractFirst(mapped["full_name"])),
                          "last_name", ExtractLast(mapped["full_name"]))
                 ELSE mapped
        normalized == [f \in DOMAIN split |-> NormalizeField(f, split[f])]
    IN  IF \E f \in DOMAIN normalized : normalized[f].t = "raised"
        THEN Raised("ValueError")
        ELSE Table(source,
                   [f \in DOMAIN normalized |->
                       IF f \in DedupeFields THEN StrOrNone(normalized[f])
                       ELSE normalized[f]])

\* A table of several rows, in their order.
Rows(source, rows) == [t |-> "rows", source |-> source, rows |-> rows]

\* preprocess_source_data on a table of several rows: every step works on a
\* column, value by value (Series.apply, str.extract), and df.index + 1
\* numbers the rows of a table without an id column by their position; an
\* exception in one value ends the call.
preprocess_rows(config, source, rows) ==
    LET out == [i \in 1..Len(rows) |->
                   preprocess_source_data(config, source,
                       IF "id" \in DOMAIN rows[i] THEN rows[i]
                       ELSE Put(rows[i], "id", PyInt(i)))]
    IN  IF \E i \in 1..Len(rows) : out[i].t = "raised"
        THEN Raised("ValueError")
        ELSE Rows(source, [i \in 1..Len(rows) |-> out[i].row])

(***************************************************************************)
(* The values handed to the preprocessing functions.                       *)
(***************************************************************************)
TextChars == {"A", " ", "7", "-"}

TextStrings == UNION {[1..n -> TextChars] : n \in 0..MaxLen}

\* The orders in which the keys of an address may have been put in.
KeyOrders == {AddressKeys, <<AddressKeys[2], AddressKeys[1]>>}

\* Structured addresses: a value, an empty string or None under each key.
AddressDicts ==
    {Address(keys, f) :
        keys \in KeyOrders,
        f \in [Range(AddressKeys) -> {Str(<<"A">>), Str(<<"7">>), Str(<<>>), Null}]}

Lists == {List(<<Str(<<"A">>), Str(<<"7">>)>>)}

FieldValues ==
    {Null, PyInt(7)} \cup {Str(s) : s \in TextStrings} \cup AddressDicts \cup Lists

\* Date texts: a day, a day out of range, both in two formats, and text
\* with a letter in it.
DateTexts ==
    {IsoText(1990, 2, 3), IsoText(1990, 2, 30), UsText(2, 3, 1990), UsText(2, 30, 1990)}
    \cup {s \in TextStrings : \E i \in 1..Len(s) : s[i] = "A"}

DateValues == {Null} \cup {Str(s) : s \in DateTexts}

\* The values a column may hold: dates of birth are null or text, names of
\* the physical therapy source null or text, phone numbers null, text or a
\* number; the other columns hold any value.
ColumnValues(column) ==
    IF column \in {"date_of_birth", "dob"} THEN DateValues
    ELSE IF column = "full_name" THEN {Null} \cup {Str(s) : s \in TextStrings}
    ELSE IF column = "phone_number" THEN {Null, PyInt(7)} \cup {Str(s) : s \in TextStrings}
    ELSE FieldValues

\* The tables: one column besides id, with or without the id column.
InputRows ==
    UNION {{Put(Put(<<>>, "id", PyInt(1)), column, value), Put(<<>>, column, value)} :
             <<column, value>> \in
                UNION {{<<c, v>> : v \in ColumnValues(c)} : c \in Columns \ {"id"}}}

PreprocessSources == {"clinic", "physical_therapy"}

\* The configuration of the preprocessing script: no field_mappings, or
\* the raw column dob mapped to date_of_birth.
MappingConfigs ==
    {Dict(BaseConfig),
     Dict([k \in {"paths", "database", "field_mappings"} |->
             IF k = "field_mappings"
             THEN Dict([s \in PreprocessSources |-> Dict([dob |-> "date_of_birth"])])
             ELSE BaseConfig[k]])}

\* Everything but the variables of the preprocessing functions.
pipeline == <<disk, process, locals, pc>>

InitNormalize ==
    /\ InitDisk
    /\ cfg \in MappingConfigs
    /\ settings = "absent"
    /\ results = NoFile
    /\ runs_left = 0

Applied(name, argument, result) ==
    /\ call = "none"
    /\ call' = name
    /\ raw' = argument
    /\ canonical' = result
    /\ canonical_again' = canonical_again
    /\ UNCHANGED pipeline

NormalizeText == \E value \in FieldValues : Applied("normalize_text", value, normalize_text(value))

NormalizePhone ==
    \E value \in FieldValues : Applied("normalize_phone", value, normalize_phone(value))

NormalizeDate ==
    \E value \in DateValues \cup {PyInt(7)} \cup AddressDicts \cup Lists :
        Applied("normalize_date", value, normalize_date(value))

FlattenAddress ==
    \E value \in FieldValues : Applied("flatten_address", value, flatten_address(value))

PreprocessSourceData ==
    \E source \in PreprocessSources, df \in InputRows :
        Applied("preprocess_source_data", Table(source, df),
                preprocess_source_data(cfg, source, df))

\* The function is applied to its own result.
Reapply(name, result) ==
    /\ call = name
    /\ canonical.t # "raised"
    /\ call' = name \o "_again"
    /\ canonical_again' = result
    /\ UNCHANGED <<raw, canonical, pipeline>>

NormalizeTextAgain == Reapply("normalize_text", normalize_text(canonical))

NormalizePhoneAgain == Reapply("normalize_phone", normalize_phone(canonical))

NormalizeDateAgain == Reapply("normalize_date", normalize_date(canonical))

FlattenAddressAgain == Reapply("flatten_address", flatten_address(canonical))

PreprocessAgain ==
    /\ call = "preprocess_source_data"
    /\ canonical.t = "table"
    /\ call' = "preprocess_source_data_again"
    /\ canonical_again' = preprocess_source_data(cfg, canonical.source, canonical.row)
    /\ UNCHANGED <<raw, canonical, pipeline>>

\* Names of more than MaxLen characters: repeated spaces between two tokens,
\* three tokens, a space in front of two tokens.
LongNames ==
    {<<"A", " ", " ", "7">>, <<"A", " ", "7", " ", "A">>, <<" ", "A", " ", "7">>,
     <<"A", " ", "7", " ">>}

FullNames == {Null} \cup {Str(s) : s \in TextStrings \cup LongNames}

\* The split of full_name in the extraction step.
SplitInExtraction ==
    \E value \in FullNames : Applied("extraction_split", value, ExtractionSplit(value))

\* The split of full_name in the preprocessing step.
SplitInPreprocessing ==
    \E value \in FullNames : Applied("preprocessing_split", value, PreprocessingSplit(value))

\* A row without a defect that has the columns of the given row, the id
\* column apart: text in every column, a date in a date column.
SoundRow(row, id) ==
    [c \in DOMAIN row |->
        IF c = "id" THEN PyInt(id)
        ELSE IF c \in {"date_of_birth", "dob"} THEN Str(IsoText(1970, 1, 1))
        ELSE Str(<<"7">>)]

\* Tables of two rows: any row of the model after or before a sound one.
InputTables ==
    UNION {{<<SoundRow(row, 2), row>>, <<row, SoundRow(row, 2)>>} : row \in InputRows}

PreprocessTable ==
    \E source \in PreprocessSources, rows \in InputTables :
        Applied("preprocess_rows", Rows(source, rows), preprocess_rows(cfg, source, rows))

NextNormalize ==
    \/ NormalizeText
    \/ NormalizePhone
    \/ NormalizeDate
    \/ FlattenAddress
    \/ PreprocessSourceData
    \/ NormalizeTextAgain
    \/ NormalizePhoneAgain
    \/ NormalizeDateAgain
    \/ FlattenAddressAgain
    \/ PreprocessAgain
    \/ SplitInExtraction
    \/ SplitInPreprocessing
    \/ PreprocessTable

SpecNormalize == InitNormalize /\ [][NextNormalize]_vars

(***************************************************************************)
(* Config (src/src/mdp_dedupe/config/__init__.py): loading the file.  A    *)
(* section of a mapping is known by the kind of its value: a mapping       *)
(* ("dict"), null or text.                                                 *)
(***************************************************************************)
SectionNames == {"paths", "database", "dedupe"}

SectionKinds == {"dict", "null", "text"}

\* What yaml.safe_load finds at the path: no file, text that is no YAML, an
\* empty file (None), a list, a scalar, or a mapping of some sections.
ConfigFiles ==
    {[kind |-> k, sections |-> <<>>] :
        k \in {"missing", "syntax_error", "empty", "list", "scalar"}}
    \cup UNION {{[kind |-> "mapping", sections |-> f] : f \in [S -> SectionKinds]} :
                 S \in SUBSET SectionNames}

\* os.getenv("DB_ECHO"): not set (or empty), or a text
EchoValues == {"unset", "true", "false"}

ConfigFile(file, echo) == [t |-> "file", file |-> file, echo |-> echo]

\* The dictionary a Config holds: its sections, and database.echo when
\* DB_ECHO set it.
Loaded(sections, echo) == [t |-> "config", sections |-> sections, echo |-> echo]

\* Config._load_config: _process_config_values(config) calls config.items()
\* before the isinstance test; only yaml.YAMLError is caught.
load_config(file, echo) ==
    IF file.kind = "missing" THEN Raised("FileNotFoundError")
    ELSE IF file.kind = "syntax_error" THEN Raised("ValueError")
    ELSE IF file.kind # "mapping" THEN Raised("AttributeError")
    ELSE IF "paths" \notin DOMAIN file.sections THEN Raised("ValueError")
    ELSE IF "database" \notin DOMAIN file.sections THEN Raised("ValueError")
    ELSE IF echo = "unset" THEN Loaded(file.sections, "unset")
    ELSE IF file.sections["database"] # "dict" THEN Raised("TypeError")
    ELSE Loaded(file.sections, echo)

\* Config.paths and Config.database: self._config["paths"], ["database"]
config_sections(config) ==
    IF {"paths", "database"} \subseteq DOMAIN config.sections
    THEN [t |-> "sections", paths |-> config.sections["paths"],
          database |-> config.sections["database"]]
    ELSE Raised("KeyError")

InitConfig ==
    /\ InitDisk
    /\ cfg = Dict(BaseConfig)
    /\ settings = "absent"
    /\ results = NoFile
    /\ runs_left = 0

\* Config(config_path)
LoadConfig ==
    \E file \in ConfigFiles, echo \in EchoValues :
        Applied("Config", ConfigFile(file, echo), load_config(file, echo))

\* The properties paths and database of a Config that was constructed.
ConfigSections ==
    /\ call = "Config"
    /\ canonical.t = "config"
    /\ call' = "Config.sections"
    /\ canonical_again' = config_sections(canonical)
    /\ UNCHANGED <<raw, canonical, pipeline>>

NextConfig ==
    \/ LoadConfig
    \/ ConfigSections

SpecConfig == InitConfig /\ [][NextConfig]_vars

(***************************************************************************)
(* Properties.                                                             *)
(***************************************************************************)
InTrace(phase) == \E i \in 1..Len(trace) : trace[i] = phase

\* deduplicate_records has returned or raised in the running process
DedupeOver == InTrace("validate") /\ pc \in {"returned", "raised", "steps", "exit"}

\* Some source of the data handed to prepare_dedupe_data lacks a required column.
LacksRequired(d) == \E s \in DOMAIN d : ~(RequiredColumns \subseteq d[s].cols)

(* C5: whenever a step run by main fails, an error is logged and main      *)
(* returns a non-zero status; main returns 0 only if every step succeeded. *)
(* The code returns 0 after a failed deduplication step.                   *)
C5_FailureGivesNonZeroExit ==
    (entry = "main" /\ pc = "exit") =>
        /\ (exc # "none" => exit_status # "0" /\ log # {})
        /\ (exit_status = "0" => exc = "none" /\ log = {})

(* C6: the model path either does not exist or holds a completely written  *)
(* model, and no run loads a partially written one.  The code opens the    *)
(* configured path itself for writing.                                     *)
C6_ModelPathNeverPartial ==
    /\ settings \in {"absent", "complete"}
    /\ settings_seen # "partial"
    /\ deduper # "static_partial"

(* C7: after a setup_dedupe call that went to train and failed, no file is *)
(* left at the model path.  The code leaves the file that open created     *)
(* when write_settings fails.                                              *)
C7_FailedTrainingLeavesNoArtifact ==
    (pc = "raised" /\ settings_seen = "absent" /\ ~InTrace("partition")) =>
        settings = "absent"

(* C8: a configured dedupe.threshold outside the open interval (0,1) is    *)
(* rejected, before any training, comparison or clustering.  The code      *)
(* never checks the value.                                                 *)
C8_ThresholdValidatedFirst ==
    (\E v \in ConfiguredThreshold(cfg) : ~(0 < v /\ v < 10)) =>
        /\ ~InTrace("label") /\ ~InTrace("train") /\ ~InTrace("partition")
        /\ pc # "returned"

(* C9: when a source's table lacks a required column, deduplicate_records  *)
(* raises InvalidDataError whatever the other sources hold, before the     *)
(* model path is looked at and with the results file as it was.            *)
C9_MissingColumnAbortsRun ==
    LacksRequired(data) =>
        /\ pc \in {"dedupe_check", "raised", "steps", "exit"}
        /\ (pc # "dedupe_check" => exc = "InvalidDataError")
        /\ trace \in {<<>>, <<"validate">>}
        /\ settings_seen = "unknown"
        /\ deduper = "none"
        /\ results = results_at_start

\* C9's case: one source lacks a column, another is valid and has a row, a
\* results file exists, and deduplicate_records has raised.
C9_Witness ==
    /\ LacksRequired(data)
    /\ \E s \in DOMAIN data : RequiredColumns \subseteq data[s].cols /\ data[s].ids # <<>>
    /\ pc = "raised"
    /\ exc = "InvalidDataError"
    /\ results = OldResults

(* C10: with no model at the model path and training disallowed (the       *)
(* run_dedupe script), the run raises ModelNotFoundError at once and never *)
(* starts labeling.  The code starts the labeling session.                 *)
C10_NoModelNoTraining ==
    (entry = "run_dedupe" /\ settings_seen = "absent") =>
        /\ ~InTrace("label")
        /\ (DedupeOver => exc = "ModelNotFoundError")

(* C11: over a sequence of runs, a run that finds a model artifact loads   *)
(* it, does no labeling, training or saving and leaves the artifact as it  *)
(* is (only the environment's deletion changes it); labeling, training and *)
(* saving happen only in a run that found no artifact and only while none  *)
(* is at the path, and a run that follows a run that trained, with no      *)
(* deletion ever, does not train.                                          *)
C11_TrainOnceThenLoad ==
    [][/\ (settings_seen' \in {"complete", "partial"} =>
             /\ \A i \in 1..Len(trace') : trace'[i] \notin {"label", "train", "save"}
             /\ deduper' \in {"none", "static", "static_partial"}
             /\ (pc' \in {"partition", "write", "returned"} =>
                    /\ \E i \in 1..Len(trace') : trace'[i] = "load"
                    /\ deduper' # "none"))
       /\ (settings_seen \in {"complete", "partial"} /\ settings' # settings =>
             settings' = "absent" /\ removed' = removed + 1)
       /\ (pc' \in {"label", "train", "save_open", "save_write"} =>
             settings_seen' = "absent")
       /\ (pc' \in {"label", "train", "save_open"} => settings' = "absent")
       /\ (last_run'.model = "trained" /\ removed' = 0 =>
             /\ deduper' # "trained"
             /\ \A i \in 1..Len(trace') : trace'[i] \notin {"label", "train", "save"})
      ]_vars

\* C11's case: a run trained and saved the model, nothing was deleted, and
\* the next run found the artifact, loaded it and returned.
C11_Witness ==
    /\ last_run.ran
    /\ last_run.model = "trained"
    /\ removed = 0
    /\ settings_seen = "complete"
    /\ settings = "complete"
    /\ deduper = "static"
    /\ trace = <<"validate", "load", "partition", "write">>
    /\ pc = "returned"

\* The two orders in which a run of deduplicate_records passes its phases.
PhaseOrders ==
    {<<"validate", "load", "partition", "write">>,
     <<"validate", "label", "train", "save", "partition", "write">>}

IsPrefix(s, t) == Len(s) <= Len(t) /\ \A i \in 1..Len(s) : s[i] = t[i]

RECURSIVE Members(_)
Members(cs) ==
    IF cs = <<>> THEN {} ELSE Range(Head(cs).records) \cup Members(Tail(cs))

(* C12: the phases of a run are strictly sequential: validation, then load *)
(* or (labeling, training, saving), then partition over every record, then *)
(* writing; partition starts only with labeling, training and saving       *)
(* completed, and the results file is touched only after partition has     *)
(* returned the whole cluster list.                                        *)
C12_PhasesSequential ==
    /\ \E order \in PhaseOrders : IsPrefix(trace, order)
    /\ (InTrace("partition") /\ InTrace("label") =>
          InTrace("train") /\ InTrace("save") /\ deduper = "trained")
    /\ (InTrace("partition") /\ ~InTrace("label") =>
          InTrace("load") /\ deduper \in {"static", "static_partial"})
    /\ (clusters # <<>> => InTrace("partition") /\ Members(clusters) = Range(dedupe_data))
    /\ (pc \in {"write", "returned"} => Members(clusters) = Range(dedupe_data))
    /\ (~InTrace("write") => results = results_at_start)
    /\ (InTrace("write") /\ results # results_at_start =>
          results.rows = WriteRows(clusters, 1, <<>>).rows)

\* C12's case: a run that labelled, trained, saved, partitioned and wrote.
C12_Witness ==
    /\ pc = "returned"
    /\ trace = <<"validate", "label", "train", "save", "partition", "write">>
    /\ Len(results.rows) = MaxRecords

\* The clusters of the list cs that hold record k.
ClusterOf(cs, k) == {c \in 1..Len(cs) : k \in Range(cs[c].records)}

SourcesInOrder == <<"clinic", "hospital", "physical_therapy", "urgent_care">>

IdRank(k) ==
    CHOOSE r \in 0..(Len(SourcesInOrder) * (MaxLocalId + 1)) :
        \E s \in 1..Len(SourcesInOrder), lid \in 1..MaxLocalId :
            /\ k = RecordId(SourcesInOrder[s], lid)
            /\ r = (s - 1) * (MaxLocalId + 1) + lid

\* The rank of the smallest record id among the rows with the cluster id c.
SmallestMember(rows, c) ==
    CHOOSE r \in {IdRank(rows[i].record_id) : i \in {j \in 1..Len(rows) : rows[j].cluster_id = c}} :
        \A i \in 1..Len(rows) :
            rows[i].cluster_id = c => r <= IdRank(rows[i].record_id)

(* C14: in the results deduplicate_records has written, the members of a   *)
(* cluster appear in lexicographic order of record id and the clusters     *)
(* appear in the order of their smallest member id.  The code writes the   *)
(* list in the order partition returned it and sorts nothing.              *)
C14_OutputSorted ==
    pc = "returned" =>
        \A i, j \in 1..Len(results.rows) :
            i < j =>
                IF results.rows[i].cluster_id = results.rows[j].cluster_id
                THEN IdRank(results.rows[i].record_id) < IdRank(results.rows[j].record_id)
                ELSE SmallestMember(results.rows, results.rows[i].cluster_id)
                        < SmallestMember(results.rows, results.rows[j].cluster_id)

(* C15: two runs that were given the same tables, the same persisted model *)
(* and the same threshold write the same results file: here, the part of   *)
(* it that the record ids make, row by row.  Nothing in                    *)
(* deduplicate_records fixes the order of the list that partition returns, *)
(* and it writes the list as it comes.                                     *)
C15_RepeatedRunSameOutput ==
    (/\ pc = "returned"
     /\ last_run.ran
     /\ last_run.data = data
     /\ last_run.threshold = threshold
     /\ last_run.model \in {"static", "trained"}
     /\ last_run.removed = removed
     /\ deduper = "static"
     /\ settings_seen = "complete")
        => /\ Len(results.rows) = Len(last_run.rows)
           /\ \A i \in 1..Len(results.rows) :
                 results.rows[i].record_id = last_run.rows[i].record_id

(* C16: prepare_dedupe_data gives every row of every table its own record  *)
(* id, so the universe it returns has as many records as the tables have   *)
(* rows.  The code stores each row under f"{source}_{row['id']}": rows of  *)
(* a table that carry the same id take one key, the later over the         *)
(* earlier.                                                                *)
C16_RecordIdsUnique ==
    dedupe_data # <<>> => Len(dedupe_data) = RowCount(data, DOMAIN data)

(* C17: no preprocessing function raises on the content of a field:        *)
(* normalize_text, normalize_phone, normalize_date, flatten_address and    *)
(* preprocess_source_data return for every value.  The code tests          *)
(* `if pd.isnull(value)`, which raises ValueError for a list or an array.  *)
C17_NormalizerNeverRaises ==
    canonical.t # "raised" /\ canonical_again.t # "raised"

\* An ISO date: YYYY-MM-DD of a day of the calendar.
IsIsoDate(value) ==
    /\ value.t = "str"
    /\ \E day \in Calendar : value.s = IsoText(day.y, day.m, day.d)

\* A string of digits, at least one.
IsDigits(value) ==
    /\ value.t = "str"
    /\ value.s # <<>>
    /\ \A i \in 1..Len(value.s) : IsDigit(value.s[i])

(* C18: in every table preprocess_source_data returns, date_of_birth is    *)
(* null or an ISO date and phone_number is null or a string of digits; a   *)
(* phone value without a digit becomes null.  The code returns the empty   *)
(* string for it.                                                          *)
C18_CanonicalFieldsWellTyped ==
    canonical.t = "table" =>
        /\ ("date_of_birth" \in DOMAIN canonical.row =>
              canonical.row["date_of_birth"] = Null \/ IsIsoDate(canonical.row["date_of_birth"]))
        /\ ("phone_number" \in DOMAIN canonical.row =>
              canonical.row["phone_number"] = Null \/ IsDigits(canonical.row["phone_number"]))

FirstToken(s) == SubSeq(s, 1, Find(s, 1, TRUE) - 1)

Remainder(s) == SubSeq(s, Find(s, Find(s, 1, TRUE), FALSE), Len(s))

(* C23: a full name is split on its first run of whitespace, in the         *)
(* extraction step and in the preprocessing step alike: for a name made of  *)
(* a token, a run of spaces and more text, first_name is the token and      *)
(* last_name is all that follows the run; a name of one token gives that    *)
(* token and no last name.  The extraction step cuts at the first single    *)
(* space, str.split(' ', n=1), and leaves the rest of the run in front of   *)
(* last_name.                                                               *)
C23_FullNameSplitOnFirstRun ==
    call \in {"extraction_split", "preprocessing_split"} /\ raw.t = "str" =>
        /\ (FirstToken(raw.s) # <<>> /\ Remainder(raw.s) # <<>> =>
              canonical = Names(Str(FirstToken(raw.s)), Str(Remainder(raw.s))))
        /\ (raw.s # <<>> /\ FirstToken(raw.s) = raw.s =>
              canonical = Names(Str(raw.s), Null))

(* C24: flatten_address gives, for an address dictionary, the ", "-joined   *)
(* text of its non-empty values in an order of the keys that is the same    *)
(* in whatever order the keys were put into the dictionary, and gives a     *)
(* string back unchanged.  The code joins address.values(), which is the    *)
(* order the keys were put in.                                              *)
C24_FlattenKeyOrderStable ==
    call = "flatten_address" =>
        /\ (raw.t = "dict" =>
              \A keys \in KeyOrders : flatten_address(Address(keys, raw.items)) = canonical)
        /\ (raw.t = "str" => canonical = raw)

(* C25: Config.get returns the configured value whenever the key exists,    *)
(* whatever the value is, and the default only when the key does not       *)
(* exist: the threshold partition is called with is the configured          *)
(* dedupe.threshold, and 0.5 only when none is configured.  The code        *)
(* returns the default for every falsy value (`if not value`, `value or     *)
(* default`): a configured 0 gives 0.5.                                     *)
C25_ConfiguredValueReturned ==
    InTrace("partition") =>
        /\ \A v \in ConfiguredThreshold(cfg) : threshold = v
        /\ (ConfiguredThreshold(cfg) = {} => threshold = DefaultThreshold)

\* What the steps of deduplicate_records fail with before any except clause.
OriginalCauses == {"OSError", "Exception", "SettingsFileLoadingException", "ZeroDivisionError"}

C27_NoRowLost ==
    call = "preprocess_rows" =>
        /\ canonical.t = "rows"
        /\ Len(canonical.rows) = Len(raw.rows)
        /\ \A i \in 1..Len(raw.rows) :
              /\ canonical.rows[i]["id"] =
                    (IF "id" \in DOMAIN raw.rows[i] THEN raw.rows[i]["id"] ELSE PyInt(i))
              /\ DOMAIN raw.rows[i] \subseteq DOMAIN canonical.rows[i]

\* The order of the pipeline, and the steps a command line selects.
StepOrder == <<"seed", "extract", "preprocess", "dedupe">>

Selected(parsed) ==
    IF parsed.all THEN Range(StepOrder)
    ELSE IF ~(parsed.seed \/ parsed.extract \/ parsed.preprocess \/ parsed.dedupe)
         THEN {"dedupe"}
         ELSE {step \in Range(StepOrder) : parsed[step]}

Planned(parsed) == SelectSeq(StepOrder, LAMBDA step : step \in Selected(parsed))

(* C28: main runs the selected steps in the order seed, extract,           *)
(* preprocess, dedupe, each at most once: --all selects the four, no step   *)
(* flag selects dedupe alone.  The steps that have run are always the       *)
(* first of the selected ones in that order, and together with the steps    *)
(* still to run they are exactly the selected ones; a step starts only      *)
(* while no step has raised, after a step has raised no step starts, and    *)
(* main returns 0 only when every selected step has run.                    *)
C28_StepsInPipelineOrder ==
    [][entry' = "main" =>
          /\ IsPrefix(ran', Planned(args'))
          /\ (pc' = "steps" => ran' \o steps' = Planned(args'))
          /\ (ran' # ran /\ entry = "main" =>
                /\ ran' = Append(ran, Planned(args)[Len(ran) + 1])
                /\ pc = "steps"
                /\ exit_status = "running"
                /\ "main_error" \notin log)
          /\ ("main_error" \in log' => pc' = "exit" /\ steps' = <<>> /\ exit_status' = "1")
          /\ (exit_status' = "0" => ran' = Planned(args'))
      ]_vars

\* C28's case: --all together with --seed; the four steps ran once each, in
\* order, and main returned 0.
C28_Witness ==
    /\ entry = "main"
    /\ args.all
    /\ args.seed
    /\ ran = StepOrder
    /\ pc = "exit"
    /\ exit_status = "0"

(* C29: Config fails with FileNotFoundError when the file does not exist    *)
(* and with ValueError for every invalid configuration: text that is no     *)
(* YAML, a top-level value that is no mapping (an empty file, a list), a    *)
(* mapping without paths or without database; it fails with nothing else,   *)
(* and a Config that was constructed has both sections.  The code calls     *)
(* config.items() before it tests isinstance(config, dict): an empty file   *)
(* or a list ends in AttributeError.                                        *)
C29_ConfigLoadErrorsDocumented ==
    /\ (call = "Config" =>
          /\ (canonical.t = "raised" => canonical.e \in {"FileNotFoundError", "ValueError"})
          /\ (raw.file.kind = "missing" <=> canonical = Raised("FileNotFoundError"))
          /\ (raw.file.kind \in {"syntax_error", "empty", "list", "scalar"} =>
                canonical = Raised("ValueError"))
          /\ (raw.file.kind = "mapping"
                  /\ ~({"paths", "database"} \subseteq DOMAIN raw.file.sections) =>
                canonical = Raised("ValueError"))
          /\ (canonical.t = "config" =>
                {"paths", "database"} \subseteq DOMAIN canonical.sections))
    /\ (call = "Config.sections" => canonical_again.t = "sections")

(* C22: a null of a compared field is handed to the comparison as missing  *)
(* data and counted by a missing indicator of its own: every definition of  *)
(* the variables that is handed to dedupe.Dedupe names the six compared     *)
(* fields and asks for the missing indicator of each (has_missing).  The    *)
(* fields of src/scripts/dedup_match.py are declared without has_missing.   *)
C22_MissingIndicatorForEveryField ==
    fields # <<>> =>
        /\ {fields[i].field : i \in 1..Len(fields)} = DedupeFields
        /\ \A i \in 1..Len(fields) : fields[i].has_missing

====
